---------------------------- MODULE Spec2Model ----------------------------
(***************************************************************************)
(* A model of simple-quad-sim (src/sim.py): the command line, the Robot    *)
(* object (13-dimensional rigid-body state, adaptive estimator, cascaded   *)
(* controller, motor mixing), the per-tick sequence of control_propellers  *)
(* and the frame loop of main.                                             *)
(*                                                                         *)
(* Numbers.  The program computes in float64.  The model computes in       *)
(* fixed point: every real is an integer count of a fixed resolution, the  *)
(* exact result of an operation is rounded to the nearest count (as a      *)
(* float operation rounds to the nearest float), and NaN is a distinct     *)
(* value that every operation propagates.  Resolutions:                    *)
(*   S   (1/1000)  positions, velocities, accelerations, forces, torques,  *)
(*                 quaternion and rotation-matrix entries, angular rates,  *)
(*                 wind, features;                                         *)
(*   SU  (1e-6)    the estimate a_hat and the covariance P;                *)
(*   SW  (1/10)    motor speeds; squared motor speeds are counts of 1/100. *)
(* Simulated time is kept as the number of dt steps added to it.           *)
(***************************************************************************)
EXTENDS Integers, Sequences, FiniteSets, TLC

S  == 10^3
SU == 10^6
SW == 10^1

\* ------------------------------------------------------------------------
\* Program constants (src/sim.py)
\* ------------------------------------------------------------------------
NO_STATES   == 13
IDX_POS_X   == 0
IDX_POS_Y   == 1
IDX_POS_Z   == 2
IDX_VEL_X   == 3
IDX_VEL_Y   == 4
IDX_VEL_Z   == 5
IDX_QUAT_W  == 6
IDX_QUAT_X  == 7
IDX_QUAT_Y  == 8
IDX_QUAT_Z  == 9
IDX_OMEGA_X == 10
IDX_OMEGA_Y == 11
IDX_OMEGA_Z == 12

PLAYBACK_SPEED    == 200
CONTROL_FREQUENCY == 200      \* dt = 1.0 / CONTROL_FREQUENCY
Horizon           == 15       \* if self.time > 15
MassM             == 1        \* self.m = 1.0
ArmInv            == 4        \* self.arm_length = 0.25 = 1/ArmInv
JInv              == 40       \* self.J = 0.025 * eye(3) = eye(3)/JInv
KtInv             == 1000     \* self.constant_thrust = 10e-4 = 1/KtInv
KdInv             == 100000   \* self.constant_drag = 10e-6 = 1/KdInv
LambdaInv         == 1000     \* self.l = 1e-3 = 1/LambdaInv
P0Inv             == 1000     \* self.P = eye(9) * 1e-3
QInv              == 1000     \* self.Q = eye(9) * 1e-3
Gravity100        == 981      \* 9.81, in hundredths
K_P               == 2
K_D               == 5
K_Q               == 20
K_OMEGA           == 100
TrajPeriod        == 5        \* T = 5 in control_propellers
WindOmInv         == 2        \* wind(om=0.5): om = 1/WindOmInv

Gravity == (Gravity100 * S) \div 100

\* ------------------------------------------------------------------------
\* float64 as fixed point with NaN
\* ------------------------------------------------------------------------
NaN == -2147483647

Add(a, b) == IF a = NaN \/ b = NaN THEN NaN ELSE a + b
Sub(a, b) == IF a = NaN \/ b = NaN THEN NaN ELSE a - b
Mul(a, b) == IF a = NaN \/ b = NaN THEN NaN ELSE a * b
Neg(a)    == IF a = NaN THEN NaN ELSE 0 - a

\* a / b rounded to the nearest count; 0/0 is NaN (numpy: RuntimeWarning, nan).
\* The divisors of the program are norms and positive constants, so b >= 0,
\* and b = 0 only when the dividend is 0 as well.
Rnd(a, b) ==
    IF a = NaN \/ b = NaN THEN NaN
    ELSE IF b = 0 THEN NaN
    ELSE (a + (b \div 2)) \div b

\* np.max([0, x]): NaN propagates
Max0(x) == IF x = NaN THEN NaN ELSE IF x < 0 THEN 0 ELSE x

\* np.clip(x, 0, None): NaN propagates
Clip0(x) == IF x = NaN THEN NaN ELSE IF x < 0 THEN 0 ELSE x

RECURSIVE SqrtFloor(_, _, _)
SqrtFloor(n, lo, hi) ==
    IF lo >= hi THEN lo
    ELSE LET mid == (lo + hi + 1) \div 2
         IN  IF mid * mid <= n THEN SqrtFloor(n, mid, hi)
             ELSE SqrtFloor(n, lo, mid - 1)

\* np.sqrt: the root rounded to the nearest count; NaN for NaN and for x < 0
Sqrt(n) ==
    IF n = NaN THEN NaN
    ELSE IF n < 0 THEN NaN
    ELSE LET r == SqrtFloor(n, 0, 46340)
         IN  IF n - r * r > r THEN r + 1 ELSE r

Abs(x) == IF x < 0 THEN 0 - x ELSE x

\* ------------------------------------------------------------------------
\* vectors (tuples) and matrices (tuples of rows)
\* ------------------------------------------------------------------------
Zero3 == << 0, 0, 0 >>
Zero9 == << 0, 0, 0, 0, 0, 0, 0, 0, 0 >>

HasNaN(v) ==
    CASE Len(v) = 3 -> v[1] = NaN \/ v[2] = NaN \/ v[3] = NaN
      [] Len(v) = 4 -> v[1] = NaN \/ v[2] = NaN \/ v[3] = NaN \/ v[4] = NaN
      [] Len(v) = 9 -> \/ v[1] = NaN \/ v[2] = NaN \/ v[3] = NaN
                       \/ v[4] = NaN \/ v[5] = NaN \/ v[6] = NaN
                       \/ v[7] = NaN \/ v[8] = NaN \/ v[9] = NaN

\* np.array: the tuple of the values of a function on 1 .. n
Tup(f) == f \o << >>

VAdd(a, b)   == Tup([i \in 1 .. Len(a) |-> Add(a[i], b[i])])
VSub(a, b)   == Tup([i \in 1 .. Len(a) |-> Sub(a[i], b[i])])
VScale(k, a) == Tup([i \in 1 .. Len(a) |-> Mul(k, a[i])])
VNeg(a)      == Tup([i \in 1 .. Len(a) |-> Neg(a[i])])
VRnd(a, d)   == Tup([i \in 1 .. Len(a) |-> Rnd(a[i], d)])

\* sum of the products a[i] * b[i]; one NaN makes the sum NaN (0 * NaN is NaN)
SumProd(a, b) ==
    IF HasNaN(a) \/ HasNaN(b) THEN NaN
    ELSE CASE Len(a) = 3 -> a[1] * b[1] + a[2] * b[2] + a[3] * b[3]
           [] Len(a) = 4 -> a[1] * b[1] + a[2] * b[2] + a[3] * b[3] + a[4] * b[4]
           [] Len(a) = 9 -> a[1] * b[1] + a[2] * b[2] + a[3] * b[3] + a[4] * b[4]
                            + a[5] * b[5] + a[6] * b[6] + a[7] * b[7] + a[8] * b[8]
                            + a[9] * b[9]

\* the inner product, brought back to the resolution of the result by the
\* divisor den
Dot(a, b, den) == Rnd(SumProd(a, b), den)

MatVec(M, v, den) == Tup([i \in 1 .. Len(M) |-> Dot(M[i], v, den)])
Column(M, j) == Tup([i \in 1 .. Len(M) |-> M[i][j]])
Transpose(M) == Tup([j \in 1 .. Len(M[1]) |-> Column(M, j)])

SumSq(v) == SumProd(v, v)

MaxAbs(v) == CHOOSE m \in {Abs(v[i]) : i \in DOMAIN v} :
                 \A i \in DOMAIN v : Abs(v[i]) <= m

\* np.linalg.norm: the Euclidean norm, rounded.  Large vectors are summed at
\* a coarser resolution so that the squares stay in range.
Norm(v) ==
    IF HasNaN(v) THEN NaN
    ELSE IF MaxAbs(v) <= 26000 THEN Sqrt(SumSq(v))
    ELSE 16 * Sqrt(SumSq(VRnd(v, 16)))

\* def normalized(v): return v / norm
normalized(v) ==
    LET norm == Norm(v)
    IN  Tup([i \in 1 .. Len(v) |-> Rnd(Mul(v[i], S), norm)])

\* def quat_mult(q, p): q * p, [w x y z]
quat_mult(q, p) ==
    LET M(a, b) == Mul(a, b)
    IN  << Rnd(Sub(Sub(Sub(M(p[1], q[1]), M(q[2], p[2])), M(q[3], p[3])), M(q[4], p[4])), S),
           Rnd(Sub(Add(Add(M(q[2], p[1]), M(q[1], p[2])), M(q[3], p[4])), M(q[4], p[3])), S),
           Rnd(Sub(Add(Add(M(q[3], p[1]), M(q[1], p[3])), M(q[4], p[2])), M(q[2], p[4])), S),
           Rnd(Sub(Add(Add(M(q[4], p[1]), M(q[1], p[4])), M(q[2], p[3])), M(q[3], p[2])), S) >>

\* def quat_conjugate(q)
quat_conjugate(q) == << q[1], Neg(q[2]), Neg(q[3]), Neg(q[4]) >>

\* np.cross
Cross(a, b) ==
    << Rnd(Sub(Mul(a[2], b[3]), Mul(a[3], b[2])), S),
       Rnd(Sub(Mul(a[3], b[1]), Mul(a[1], b[3])), S),
       Rnd(Sub(Mul(a[1], b[2]), Mul(a[2], b[1])), S) >>

\* def quaternion_from_vectors(v_from, v_to)
quaternion_from_vectors(v_from, v_to) ==
    LET Q(vf, v_mid) == << Dot(vf, v_mid, S) >> \o Cross(vf, v_mid)
        Mid(vf, vt)  == Q(vf, normalized(VAdd(vf, vt)))
    IN  Mid(normalized(v_from), normalized(v_to))

\* scipy.spatial.transform.Rotation.from_quat([x, y, z, w]).as_matrix():
\* the quaternion is normalised, then turned into the rotation matrix.
\* Argument in the program's order [w x y z].
RotationMatrix(q) ==
    LET Pr(a, b) == Rnd(Mul(2, Mul(a, b)), S)
        M(one, w, x, y, z) ==
            << << Sub(one, Add(Pr(y, y), Pr(z, z))), Sub(Pr(x, y), Pr(w, z)), Add(Pr(x, z), Pr(w, y)) >>,
               << Add(Pr(x, y), Pr(w, z)), Sub(one, Add(Pr(x, x), Pr(z, z))), Sub(Pr(y, z), Pr(w, x)) >>,
               << Sub(Pr(x, z), Pr(w, y)), Add(Pr(y, z), Pr(w, x)), Sub(one, Add(Pr(x, x), Pr(y, y))) >> >>
        U(u) == M(IF u[1] = NaN THEN NaN ELSE S, u[1], u[2], u[3], u[4])
    IN  U(normalized(q))

\* np.sin of the angle pi * n / H, by Bhaskara's rational approximation
\* (exact at the multiples of pi/2); H is even.
SinPi(n, H) ==
    LET u0  == n % (2 * H)
        neg == u0 >= H
        u   == IF neg THEN u0 - H ELSE u0
        num == u * (H - u)
        val == Rnd(4 * num * S, (5 * H * H - 4 * num) \div 4)
    IN  IF neg THEN 0 - val ELSE val

\* ------------------------------------------------------------------------
\* Configuration: params.py and the trained feature map are not part of the
\* sources at hand; their contents are taken from the specification.
\* ------------------------------------------------------------------------
VALID_TRAJS == {"hover", "circle", "figure8"}
VALID_WINDS == {"const", "sin"}
WIND_MAGS   == {0, 2}

\* the command lines the model is run with: every trajectory, every wind
\* kind, every magnitude, and one argument outside its choices each
CommandLines ==
    { [traj |-> "hover",   wind |-> "const", wind_mag |-> 2],
      [traj |-> "circle",  wind |-> "sin",   wind_mag |-> 2],
      [traj |-> "figure8", wind |-> "const", wind_mag |-> 0],
      [traj |-> "zigzag",  wind |-> "const", wind_mag |-> 0],
      [traj |-> "hover",   wind |-> "gust",  wind_mag |-> 2],
      [traj |-> "hover",   wind |-> "sin",   wind_mag |-> 7] }

\* the feature maps the model is run with: phi(x in R^11) -> R^3, x =
\* [velocity(3), orientation(4), last motor speeds(4)]
PhiNets == {"bias", "vel"}

phi_forward(net, x) ==
    IF net = "bias" THEN << S, S \div 2, 0 - (S \div 2) >>
    ELSE << x[1], x[2], x[3] >>

\* ------------------------------------------------------------------------
\* State
\* ------------------------------------------------------------------------
VARIABLES
    argv,          \* the command line: [traj, wind, wind_mag]
    net,           \* self.phi_net, the loaded feature map
    pc,            \* where the process is
    loop_i,        \* iterations done by the for loop of control_loop
    state,         \* self.state, indices 0 .. NO_STATES-1
    time,          \* self.time, in steps of dt
    tic,           \* self.tic
    omega_motors,  \* self.omega_motors
    p_d_I,         \* self.p_d_I
    v_d_I,         \* self.v_d_I
    a_I,           \* self.a_I
    v_I_prev,      \* self.v_I_prev: a value, or a view of self.state[3:6]
    a_hat,         \* self.a_hat
    P,             \* self.P
    p_d,           \* control_propellers: p_d_I passed to control()
    prop_thrusts,  \* control_propellers: the command passed to update()
    hist           \* history of the last control() call (not program state)

vars == << argv, net, pc, loop_i, state, time, tic, omega_motors, p_d_I, v_d_I,
           a_I, v_I_prev, a_hat, P, p_d, prop_thrusts, hist >>

robot == << state, time, tic, omega_motors, p_d_I, v_d_I, a_I, v_I_prev, a_hat, P >>

Slice(st, first, last) == Tup([i \in 1 .. (last - first + 1) |-> st[first + i - 1]])

PosOf(st)   == Slice(st, IDX_POS_X, IDX_POS_Z)
VelOf(st)   == Slice(st, IDX_VEL_X, IDX_VEL_Z)
QuatOf(st)  == Slice(st, IDX_QUAT_W, IDX_QUAT_Z)
OmegaOf(st) == Slice(st, IDX_OMEGA_X, IDX_OMEGA_Z)

\* np.concatenate([p, v, q, omega]) as a state vector
Concat13(p, v, q, w) ==
    [i \in 0 .. NO_STATES - 1 |->
        IF i <= IDX_POS_Z THEN p[i - IDX_POS_X + 1]
        ELSE IF i <= IDX_VEL_Z THEN v[i - IDX_VEL_X + 1]
        ELSE IF i <= IDX_QUAT_Z THEN q[i - IDX_QUAT_W + 1]
        ELSE w[i - IDX_OMEGA_X + 1]]

\* def reset_state_and_input(self, init_xyz, init_quat_wxyz)
reset_state_and_input(init_xyz, init_quat_wxyz) ==
    Concat13(init_xyz, Zero3, init_quat_wxyz, Zero3)

Eye9(d) == Tup([i \in 1 .. 9 |-> Tup([j \in 1 .. 9 |-> IF i = j THEN d ELSE 0])])

\* a value held by an attribute that later holds a view of the state
Value(v) == [view |-> FALSE, val |-> v]
ViewOfVel == [view |-> TRUE, val |-> Zero3]

\* reading self.v_I_prev: a view reads the velocity the state holds now
ReadVPrev(vp, st) == IF vp.view THEN VelOf(st) ELSE vp.val

NoneVal == << >>

\* the kinds wind() has a branch for
WindKinds == {"const", "sin"}

\* def wind(self, om=0.5, phi=0); the time is self.time
WindHalfPeriod == (WindOmInv * CONTROL_FREQUENCY * 314) \div 100

wind(a, t) ==
    IF a.wind = "const" THEN << a.wind_mag * S, 0, 0 >>
    ELSE IF a.wind = "sin" THEN << a.wind_mag * SinPi(t, WindHalfPeriod), 0, 0 >>
    ELSE NoneVal

\* control_propellers: the reference position at self.time
TrajHalfPeriod == (TrajPeriod * CONTROL_FREQUENCY) \div 2

Reference(traj, t) ==
    IF traj = "hover" THEN << S, 0, S >>
    ELSE IF traj = "circle"
         THEN << SinPi(t + TrajHalfPeriod \div 2, TrajHalfPeriod), SinPi(t, TrajHalfPeriod), S >>
    ELSE IF traj = "figure8"
         THEN << SinPi(t + TrajHalfPeriod, 2 * TrajHalfPeriod), SinPi(t, TrajHalfPeriod), S >>
    ELSE NoneVal

\* if self.time > 15, for self.time the float64 sum of t copies of
\* dt = 0.005: the sum is below 15 for t < 3000 and is 15.000000000000945 at
\* t = 3000 = 15 * CONTROL_FREQUENCY, so the test first succeeds there.
TimeExceeds(t) == t >= Horizon * CONTROL_FREQUENCY

\* ------------------------------------------------------------------------
\* Robot.compute_Phi
\* ------------------------------------------------------------------------
compute_Phi(st, om, nt) ==
    LET x   == VelOf(st) \o QuatOf(st) \o om
        phi == phi_forward(nt, x)
    IN  Tup([i \in 1 .. 3 |->
            Tup([j \in 1 .. 9 |->
                IF 3 * (i - 1) < j /\ j <= 3 * i THEN phi[j - 3 * (i - 1)] ELSE 0])])

\* ------------------------------------------------------------------------
\* Robot.control
\* ------------------------------------------------------------------------
\* a_hat at the resolution of the forces
AHatS(ah) == VRnd(ah, SU \div S)

\* lines 290-295: one Euler step of the estimate and of the covariance.
\* np.linalg.inv(self.R) is the identity (self.R = eye(3)).
EstimatorStep(ah, Pm, Phi, s, w) ==
    LET PhiT  == Transpose(Phi)
        PT    == Transpose(Pm)
        PPhiT == Tup([i \in 1 .. 9 |-> Tup([j \in 1 .. 3 |-> Dot(Pm[i], Phi[j], S)])])
        t1    == MatVec(PPhiT, s, S)
        err   == VSub(MatVec(Phi, AHatS(ah), S), w)
        t2    == MatVec(PPhiT, err, S)
        a_hat_dot == Tup([i \in 1 .. 9 |->
                        Sub(Add(Neg(Rnd(ah[i], LambdaInv)), t1[i]), t2[i])])
        G     == Tup([i \in 1 .. 9 |-> Tup([j \in 1 .. 9 |-> Dot(PPhiT[i], PhiT[j], S)])])
        GP    == Tup([i \in 1 .. 9 |-> Tup([j \in 1 .. 9 |-> Dot(G[i], PT[j], SU)])])
        P_dot == Tup([i \in 1 .. 9 |-> Tup([j \in 1 .. 9 |->
                    Sub(Add(Neg(Rnd(Mul(2, Pm[i][j]), LambdaInv)),
                            IF i = j THEN SU \div QInv ELSE 0),
                        GP[i][j])])])
    IN  [a_hat |-> Tup([i \in 1 .. 9 |->
                        Add(ah[i], Rnd(a_hat_dot[i], CONTROL_FREQUENCY))]),
         P     |-> Tup([i \in 1 .. 9 |-> Tup([j \in 1 .. 9 |->
                        Add(Pm[i][j], Rnd(P_dot[i][j], CONTROL_FREQUENCY))])])]

\* the correction computed before the update: the estimate of the last tick
CorrectionEstimatePrev(a_hat_in, a_hat_out) == a_hat_in

\* line 299 reads self.a_hat after line 292 has updated it in place
CorrectionEstimate(a_hat_in, a_hat_out) == a_hat_out

\* the mixing matrix B of control(), entries in units of 1e-5
B == << << KdInv \div KtInv, KdInv \div KtInv, KdInv \div KtInv, KdInv \div KtInv >>,
        << 0, 0 - (KdInv \div (KtInv * ArmInv)), 0, KdInv \div (KtInv * ArmInv) >>,
        << 0 - (KdInv \div (KtInv * ArmInv)), 0, KdInv \div (KtInv * ArmInv), 0 >>,
        << 1, 0 - 1, 1, 0 - 1 >> >>

\* B_inv = np.linalg.inv(B), taking (thrust, tau) in counts of 1/S to the
\* squared motor speeds in counts of 1/SW^2
BinvT == (KtInv * SW * SW) \div (4 * S)
BinvA == (KtInv * ArmInv * SW * SW) \div (2 * S)
BinvD == (KdInv * SW * SW) \div (4 * S)

B_inv == << << BinvT, 0, 0 - BinvA, BinvD >>,
            << BinvT, 0 - BinvA, 0, 0 - BinvD >>,
            << BinvT, 0, BinvA, BinvD >>,
            << BinvT, BinvA, 0, 0 - BinvD >> >>

\* line 354: omega_motor = np.sqrt(np.clip(omega_motor_square, 0, None))
MotorSpeed(w2) == Sqrt(Clip0(w2))

\* s computed in place in the view v_I (v_I -= v_r) writes the state
StateAfterControlInPlace(st, s) ==
    Concat13(PosOf(st), s, QuatOf(st), OmegaOf(st))

\* control() leaves self.state as it found it
StateAfterControl(st, s) == st

\* everything control(p_d_I) computes, from the attributes it reads
ControlResult(st, om, ah, Pm, vp, pd, pd_prev, t, a, nt) ==
    LET p_I     == PosOf(st)
        v_I     == VelOf(st)
        q       == QuatOf(st)
        omega_b == OmegaOf(st)
        v_r     == VScale(0 - K_P, VSub(p_I, pd))
        s       == VSub(v_I, v_r)
        a0      == VAdd(VScale(0 - K_D, s), << 0, 0, Gravity >>)
        acc     == VScale(CONTROL_FREQUENCY, VSub(v_I, ReadVPrev(vp, st)))
        \* lines 353-363
        Motors(est, used, f, thrust, q_ref, tau, omega_motor_square) ==
            [a_hat |-> est.a_hat, P |-> est.P, a_I |-> acc, used |-> used,
             s |-> s, f |-> f, q_ref |-> q_ref, thrust |-> thrust, tau |-> tau,
             omega_motor_square |-> omega_motor_square,
             omega_motor |-> Tup([i \in 1 .. 4 |-> MotorSpeed(omega_motor_square[i])]),
             v_d_I |-> VScale(CONTROL_FREQUENCY, VSub(pd, pd_prev)),
             state |-> StateAfterControl(st, s)]
        \* lines 315-353
        Rate(est, used, f, thrust, q_ref, q_err0) ==
            LET q_err == IF q_err0[1] # NaN /\ q_err0[1] < 0 THEN VNeg(q_err0) ELSE q_err0
                omega_ref == VScale(0 - (K_Q * 2), Tail(q_err))
                alpha == VScale(0 - K_OMEGA, VSub(omega_b, omega_ref))
                Mix(tau) == Motors(est, used, f, thrust, q_ref, tau,
                                   MatVec(B_inv, << thrust >> \o tau, 1))
            IN  Mix(VRnd(alpha, JInv))
        \* lines 304-314
        Attitude(est, used, f) ==
            LET f_b == MatVec(Transpose(RotationMatrix(q)), f, S)
                Err(q_ref) == Rate(est, used, f, Max0(f_b[3]), q_ref,
                                   quat_mult(quat_conjugate(q_ref), q))
            IN  Err(quaternion_from_vectors(<< 0, 0, S >>, normalized(f)))
        \* lines 297-303
        Force(Phi, est) ==
            LET Corr(used) ==
                    Attitude(est, used,
                             VScale(MassM, VSub(VAdd(a0, acc), MatVec(Phi, AHatS(used), S))))
            IN  Corr(CorrectionEstimate(ah, est.a_hat))
        \* lines 289-295
        Estimate(Phi) == Force(Phi, EstimatorStep(ah, Pm, Phi, s, wind(a, t)))
    IN  Estimate(compute_Phi(st, om, nt))

\* B applied to the squared speeds of a motor command: the
\* (thrust, tau_x, tau_y, tau_z) the controller's mixing stands for
MixWrench(om) ==
    LET w2 == Tup([i \in 1 .. 4 |-> Mul(om[i], om[i])])
    IN  Tup([i \in 1 .. 4 |-> Dot(B[i], w2, (KdInv * SW * SW) \div S)])

\* ------------------------------------------------------------------------
\* Robot.update
\* ------------------------------------------------------------------------
ThrustDen == (KtInv * SW * SW) \div S
DragDen   == (KdInv * SW * SW) \div S

MotorSquares(om) == Tup([i \in 1 .. 4 |-> Mul(om[i], om[i])])

\* lines 197-218: (thrust, tau_x, tau_y, tau_z) from the motor speeds
UpdateWrench(om) ==
    LET w2 == MotorSquares(om)
    IN  << Rnd(Add(Add(w2[1], w2[2]), Add(w2[3], w2[4])), ThrustDen),
           Rnd(Mul(Sub(w2[4], w2[2]), 2), ThrustDen * ArmInv),
           Rnd(Mul(Sub(w2[3], w2[1]), 2), ThrustDen * ArmInv),
           Rnd(Sub(Add(Sub(w2[1], w2[2]), w2[3]), w2[4]), DragDen) >>

\* update() without lines 227-229
RenormalizeSkipped(q) == q

\* lines 227-229: self.state[IDX_QUAT_W : IDX_QUAT_Z + 1] /= np.linalg.norm(...)
Renormalize(q) ==
    LET n == Norm(q) IN Tup([i \in 1 .. 4 |-> Rnd(Mul(q[i], S), n)])

\* update() without line 230
TimeAfterUpdateStalled(t) == t

\* line 230: self.time += dt
TimeAfterUpdate(t) == t + 1

\* the state after update(omegas_motor, dt)
UpdateState(st, om, a, t) ==
    LET p_I   == PosOf(st)
        v_I   == VelOf(st)
        q     == QuatOf(st)
        omega == OmegaOf(st)
        R     == RotationMatrix(q)
        wr    == UpdateWrench(om)
        f_b   == << 0, 0, wr[1] >>
        tau_b == << wr[2], wr[3], wr[4] >>
        v_dot == VAdd(VAdd(VRnd(MatVec(R, f_b, S), MassM), << 0, 0, 0 - Gravity >>),
                      wind(a, t))
        omega_dot == VScale(JInv, VAdd(Cross(VRnd(omega, JInv), omega), tau_b))
        q_dot == VRnd(quat_mult(q, << 0 >> \o omega), 2)
        p_dot == v_I
        Step(x, x_dot) == Tup([i \in 1 .. Len(x) |-> Add(x[i], Rnd(x_dot[i], CONTROL_FREQUENCY))])
    IN  Concat13(Step(p_I, p_dot), Step(v_I, v_dot),
                 Renormalize(Step(q, q_dot)), Step(omega, omega_dot))

\* ------------------------------------------------------------------------
\* The process
\* ------------------------------------------------------------------------
\* --wind added without choices=VALID_WINDS
parse_args_any_wind(av) ==
    /\ av.traj \in VALID_TRAJS
    /\ av.wind_mag \in WIND_MAGS

\* argparse: choices=VALID_TRAJS, choices=VALID_WINDS, choices=WIND_MAGS
parse_args(av) ==
    /\ av.traj \in VALID_TRAJS
    /\ av.wind \in VALID_WINDS
    /\ av.wind_mag \in WIND_MAGS

Hist0 == [v_read |-> Zero3, v_read_prev |-> Zero3,
          a_hat_in |-> Zero9, a_hat_used |-> Zero9,
          est_updates |-> 0, wind_ok |-> TRUE, f |-> << 0, 0, Gravity >>,
          q_ref |-> << S, 0, 0, 0 >>]

\* Robot.__init__
RobotInit ==
    /\ state = reset_state_and_input(<< S, 0, 0 >>, << S, 0, 0, 0 >>)
    /\ time = 0
    /\ tic = 0
    /\ omega_motors = << 0, 0, 0, 0 >>
    /\ p_d_I = Zero3
    /\ v_d_I = Zero3
    /\ a_I = Zero3
    /\ v_I_prev = Value(Zero3)
    /\ a_hat = Zero9
    /\ P = Eye9(SU \div P0Inv)

Init ==
    /\ argv \in CommandLines
    /\ net \in PhiNets
    /\ pc = "parse_args"
    /\ loop_i = 0
    /\ RobotInit
    /\ p_d = Zero3
    /\ prop_thrusts = << 0, 0, 0, 0 >>
    /\ hist = Hist0

\* args = parse_args(): an argument outside its choices ends the process
\* with a usage error before main() runs
ParseArgs ==
    /\ pc = "parse_args"
    /\ pc' = IF parse_args(argv) THEN "main" ELSE "usage_error"
    /\ UNCHANGED << argv, net, loop_i, robot, p_d, prop_thrusts, hist >>

\* main(): Robot(), then plot_animation calls control_loop
Main ==
    /\ pc = "main"
    /\ pc' = "ref"
    /\ loop_i' = 0
    /\ UNCHANGED << argv, net, robot, p_d, prop_thrusts, hist >>

\* control_propellers, lines 395-405
Ref ==
    /\ pc = "ref"
    /\ LET r == Reference(argv.traj, time)
       IN  IF r = NoneVal
           THEN pc' = "value_error" /\ p_d' = p_d
           ELSE pc' = "control" /\ p_d' = r
    /\ UNCHANGED << argv, net, loop_i, robot, prop_thrusts, hist >>

\* prop_thrusts = quad.control(p_d_I=p_d_I)
Control ==
    /\ pc = "control"
    /\ IF wind(argv, time) = NoneVal
       THEN \* line 291: Phi @ self.a_hat - None raises TypeError
            /\ pc' = "type_error"
            /\ hist' = [hist EXCEPT !.wind_ok = FALSE]
            /\ UNCHANGED << robot, prop_thrusts >>
       ELSE \E c \in {ControlResult(state, omega_motors, a_hat, P, v_I_prev,
                                     p_d, p_d_I, time, argv, net)} :
                /\ pc' = "update"
                /\ a_hat' = c.a_hat
                /\ P' = c.P
                /\ a_I' = c.a_I
                /\ v_I_prev' = ViewOfVel
                /\ v_d_I' = c.v_d_I
                /\ p_d_I' = p_d
                /\ omega_motors' = c.omega_motor
                /\ prop_thrusts' = c.omega_motor
                /\ state' = c.state
                /\ hist' = [hist EXCEPT !.v_read_prev = hist.v_read,
                                        !.v_read = VelOf(state),
                                        !.a_hat_in = a_hat,
                                        !.a_hat_used = c.used,
                                        !.est_updates = hist.est_updates + 1,
                                        !.f = c.f,
                                        !.q_ref = c.q_ref]
                /\ UNCHANGED << time, tic >>
    /\ UNCHANGED << argv, net, loop_i, p_d >>

\* quad.update(prop_thrusts, dt), then the for loop of control_loop
Update ==
    /\ pc = "update"
    /\ state' = UpdateState(state, prop_thrusts, argv, time)
    /\ time' = TimeAfterUpdate(time)
    /\ tic' = tic + 1
    /\ IF TimeExceeds(time')
       THEN \* exit("Simulation finished"): SystemExit ends the process
            pc' = "exited" /\ loop_i' = loop_i
       ELSE IF loop_i + 1 < PLAYBACK_SPEED
            THEN pc' = "ref" /\ loop_i' = loop_i + 1
            ELSE pc' = "render" /\ loop_i' = loop_i + 1
    /\ UNCHANGED << argv, net, omega_motors, p_d_I, v_d_I, a_I, v_I_prev,
                    a_hat, P, p_d, prop_thrusts, hist >>

\* return get_pos_full_quadcopter(quadcopter); the plotter draws the frame
\* and calls control_loop again
Render ==
    /\ pc = "render"
    /\ pc' = "ref"
    /\ loop_i' = 0
    /\ UNCHANGED << argv, net, robot, p_d, prop_thrusts, hist >>

Next == ParseArgs \/ Main \/ Ref \/ Control \/ Update \/ Render

Spec == Init /\ [][Next]_vars

\* where the process has a statement to execute, and where it has ended:
\* with a usage error of argparse, an exception, or SystemExit
Running == {"parse_args", "main", "ref", "control", "update", "render"}
Ended   == {"usage_error", "value_error", "type_error", "exited"}

\* The interpreter executes the next statement of a process that has not
\* ended, and plot_animation keeps calling control_loop.  A step of Next is
\* possible exactly where pc is in Running, and every step of Next changes pc.
Proceed == pc \in Running /\ pc' \in (Running \cup Ended) \ {pc}

FairSpec == Spec /\ WF_pc(Proceed)

\* ------------------------------------------------------------------------
\* control() and update() on vehicles placed by reset_state_and_input
\* ------------------------------------------------------------------------
MaxTicks == 201

\* init_xyz: the constructor's position, and the vehicle at rest 0.981 m and
\* 2 m above the first reference position (1, 0, 1)
InitXYZs == { << S, 0, 0 >>, << S, 0, S + (Gravity \div (K_P * K_D)) >>, << S, 0, 3 * S >> }

\* The vehicle is placed at rest in still air: the wind is zero at time 0.
InitState ==
    /\ argv \in CommandLines
    /\ argv.wind \in WindKinds => wind(argv, 0) = Zero3
    /\ net \in PhiNets
    /\ pc = "parse_args"
    /\ loop_i = 0
    /\ \E xyz \in InitXYZs : state = reset_state_and_input(xyz, << S, 0, 0, 0 >>)
    /\ time = 0
    /\ tic = 0
    /\ omega_motors = << 0, 0, 0, 0 >>
    /\ p_d_I = Zero3
    /\ v_d_I = Zero3
    /\ a_I = Zero3
    /\ v_I_prev = Value(Zero3)
    /\ a_hat = Zero9
    /\ P = Eye9(SU \div P0Inv)
    /\ p_d = Zero3
    /\ prop_thrusts = << 0, 0, 0, 0 >>
    /\ hist = Hist0

\* the ticks of control_propellers, up to MaxTicks of them
NextState ==
    \/ tic < MaxTicks /\ ParseArgs
    \/ tic < MaxTicks /\ Main
    \/ tic < MaxTicks /\ Ref
    \/ tic < MaxTicks /\ Control
    \/ tic < MaxTicks /\ Update
    \/ tic < MaxTicks /\ Render

SpecState == InitState /\ [][NextState]_vars

\* ------------------------------------------------------------------------
\* Properties
\* ------------------------------------------------------------------------

C2_CorrectionUsesPreviousEstimate ==
    pc = "update" => hist.a_hat_used = hist.a_hat_in

\* C2 as amended: a_hat and P are updated exactly once per control tick, and
\* the update comes before the correction term, which uses the estimate that
\* this tick's update produced.
C2_CorrectionUsesUpdatedEstimate ==
    /\ hist.est_updates = (IF pc = "update" THEN tic + 1 ELSE tic)
    /\ pc = "update" => hist.a_hat_used = a_hat

\* C2 witness: a tick whose update changed the estimate before it was used
C2_EstimateChangedBeforeUse ==
    /\ pc = "update"
    /\ a_hat # hist.a_hat_in
    /\ hist.a_hat_used = a_hat
    /\ P # Eye9(SU \div P0Inv)

\* C3: once simulated time exceeds the horizon, update() has returned to its
\* caller with the completion as a status; the process was not ended from
\* inside update().
C3_CompletionReturnsToCaller ==
    TimeExceeds(time) => pc # "exited"

\* C4: a wind kind wind() has no branch for is rejected at setup, before any
\* tick; no control() or update() step ever receives a wind value that is
\* not a 3-vector.
C4_UnknownWindRejectedAtSetup ==
    /\ hist.wind_ok
    /\ pc # "type_error"
    /\ argv.wind \notin WindKinds =>
          /\ pc \in {"parse_args", "usage_error"}
          /\ tic = 0
          /\ hist.est_updates = 0

\* C4 witness: an unknown wind kind has been rejected
C4_UnknownWindRejected ==
    pc = "usage_error" /\ argv.wind \notin WindKinds /\ argv.traj \in VALID_TRAJS

C6_QuaternionUnitNorm ==
    /\ ~HasNaN(QuatOf(state))
    /\ Abs(SumSq(QuatOf(state)) - S * S) <= 3 * S + 1

\* C6 witness: update() has turned the vehicle and renormalised
C6_TurnedAndUnit ==
    /\ tic > 0
    /\ QuatOf(state) # << S, 0, 0, 0 >>
    /\ Abs(SumSq(QuatOf(state)) - S * S) <= 3 * S + 1

\* C7: control() leaves the vehicle state, the time and the tick counter
\* unchanged; the vehicle state changes only in update().
C7_OnlyUpdateChangesState ==
    [][ /\ pc = "control" => (state' = state /\ time' = time /\ tic' = tic)
        /\ state' # state => pc = "update" ]_vars

\* C7 witness: control() has updated the estimator and its bookkeeping
C7_ControlHasActed ==
    /\ pc = "update"
    /\ a_hat # Zero9
    /\ omega_motors # << 0, 0, 0, 0 >>
    /\ p_d_I # Zero3
    /\ state = reset_state_and_input(<< S, 0, 0 >>, << S, 0, 0, 0 >>)

\* C8: after the first tick the acceleration proxy is (v - v_prev) / dt, for
\* v the velocity read in this tick and v_prev the velocity control() read
\* in the tick before.
C8_AccelerationIsFiniteDifference ==
    (pc = "update" /\ hist.est_updates >= 2)
        => a_I = VScale(CONTROL_FREQUENCY, VSub(hist.v_read, hist.v_read_prev))

\* C9: a tick is reference, control(), update(), in that order; only update()
\* changes the time and the tick counter, by one step each; the run ends
\* exactly when the time exceeds the horizon, nothing runs after that, and
\* every run that starts ends.
C9_RunCompletes ==
    /\ [][ /\ pc = "ref" => pc' = "control"
           /\ pc = "control" => pc' = "update"
           /\ pc = "update" => pc' \in {"ref", "render", "exited"}
           /\ pc' = "update" => pc = "control"
           /\ pc' = "control" => pc = "ref"
           /\ (time' # time \/ tic' # tic) =>
                 (pc = "update" /\ time' = time + 1 /\ tic' = tic + 1)
           /\ pc = "exited" => pc' = "exited"
           /\ pc' = "exited" <=> TimeExceeds(time') ]_vars
    /\ (pc = "main") ~> (pc = "exited")

\* C9 witness: a run has ended at the first time beyond the horizon
C9_RunEnded ==
    pc = "exited" /\ time = Horizon * CONTROL_FREQUENCY /\ tic = time

\* C10: the thrust and torque update() derives from a motor command equal
\* the mixing matrix B of control() applied to the same squared speeds.
C10_WrenchMatchesMixing ==
    (pc = "update" /\ ~HasNaN(prop_thrusts))
        => UpdateWrench(prop_thrusts) = MixWrench(prop_thrusts)

=============================================================================
